---------------------------- MODULE Spec2Model ----------------------------
(***************************************************************************)
(* A model of feedgen's BaseEpisode (src/feedgen/item.py) and Media        *)
(* (src/feedgen/media.py).                                                 *)
(*                                                                         *)
(* Python values are tagged records, so that the dynamic checks of the     *)
(* code ("is None", truthiness, isinstance) are computed, not assumed.     *)
(* A Python str is a sequence of one-character strings.                    *)
(***************************************************************************)
EXTENDS Integers, Sequences, FiniteSets, TLC

VARIABLES
    episode,    \* the BaseEpisode object: one field per self.__xxx attribute
    out,        \* outcome of the most recent Episode call: op, arg, ret, exc
    calls,      \* number of calls made with an argument (Episode) or at all (Media)
    media,      \* the Media object the caller holds (constructed or not yet)
    mout,       \* outcome of the most recent Media operation: op, args, exc, warnings
    head_requests   \* number of HEAD requests sent to the server so far

vars == <<episode, out, calls, media, mout, head_requests>>

epVars == <<episode, out, calls>>
mediaVars == <<media, mout, head_requests>>

---------------------------------------------------------------------------
(* Bounds of the model.                                                    *)

\* accessor calls with an argument explored from a fresh Episode
MaxCalls == 2
\* the same, in the specification that explores the rendering order
MaxSets == 4
\* constructions and assignments explored on the caller's Media
MaxMediaCalls == 2

---------------------------------------------------------------------------
(* Python values.                                                          *)

None == [none |-> TRUE]
PyStr(s) == [str |-> s]
PyInt(i) == [int |-> i]
PyBool(b) == [bool |-> b]
PyDict(d) == [dict |-> d]
PyList(l) == [list |-> l]
\* datetime.datetime: tz is None (naive) or the utc offset as a PyStr
PyDatetime(stamp, tz) == [datetime |-> stamp, tzinfo |-> tz]

IsNone(v) == "none" \in DOMAIN v
IsStr(v) == "str" \in DOMAIN v
IsInt(v) == "int" \in DOMAIN v
IsBool(v) == "bool" \in DOMAIN v
IsDict(v) == "dict" \in DOMAIN v
IsList(v) == "list" \in DOMAIN v
IsDatetime(v) == "datetime" \in DOMAIN v

\* bool(v), as the code's "if x:" and "not x" evaluate it
Truthy(v) ==
    CASE IsNone(v) -> FALSE
      [] IsStr(v) -> Len(v.str) > 0
      [] IsInt(v) -> v.int # 0
      [] IsBool(v) -> v.bool
      [] IsDict(v) -> DOMAIN v.dict # {}
      [] IsList(v) -> Len(v.list) > 0
      [] OTHER -> TRUE

\* a == b: a bool compares as the int 0 / 1, other types only with themselves
PyEq(a, b) ==
    LET num(v) == IF IsBool(v) THEN (IF v.bool THEN 1 ELSE 0) ELSE v.int
        isNum(v) == IsBool(v) \/ IsInt(v)
    IN  IF isNum(a) /\ isNum(b) THEN num(a) = num(b) ELSE a = b

\* v in (t1, t2, ...)
PyIn(v, tuple) == \E i \in 1..Len(tuple) : PyEq(v, tuple[i])

\* d.get(key): the value, or None when the key is missing
DictGet(d, key) == IF key \in DOMAIN d.dict THEN d.dict[key] ELSE None

\* exceptions
NoExc == [raised |-> FALSE]
Raise(type, msg, arg) == [raised |-> TRUE, type |-> type, msg |-> msg, arg |-> arg]

---------------------------------------------------------------------------
(* str methods, on sequences of characters.                                *)

Digits == {"0", "1", "2", "3", "4", "5", "6", "7", "8", "9"}

LowerChar(c) ==
    CASE c = "A" -> "a" [] c = "B" -> "b" [] c = "C" -> "c" [] c = "D" -> "d"
      [] c = "E" -> "e" [] c = "F" -> "f" [] c = "G" -> "g" [] c = "H" -> "h"
      [] c = "I" -> "i" [] c = "J" -> "j" [] c = "K" -> "k" [] c = "L" -> "l"
      [] c = "M" -> "m" [] c = "N" -> "n" [] c = "O" -> "o" [] c = "P" -> "p"
      [] c = "Q" -> "q" [] c = "R" -> "r" [] c = "S" -> "s" [] c = "T" -> "t"
      [] c = "U" -> "u" [] c = "V" -> "v" [] c = "W" -> "w" [] c = "X" -> "x"
      [] c = "Y" -> "y" [] c = "Z" -> "z" [] OTHER -> c

\* s.lower()
Lower(s) == [i \in 1..Len(s) |-> LowerChar(s[i])]

\* s.endswith(suffix)
EndsWith(s, suffix) ==
    /\ Len(suffix) <= Len(s)
    /\ SubSeq(s, Len(s) - Len(suffix) + 1, Len(s)) = suffix

\* s.lstrip(chars)
RECURSIVE LStrip(_, _)
LStrip(s, chars) ==
    IF s # <<>> /\ Head(s) \in chars THEN LStrip(Tail(s), chars) ELSE s

\* s.rstrip(chars)
RECURSIVE RStrip(_, _)
RStrip(s, chars) ==
    IF s # <<>> /\ s[Len(s)] \in chars
    THEN RStrip(SubSeq(s, 1, Len(s) - 1), chars) ELSE s

\* s.strip()
Strip(s) == RStrip(LStrip(s, {" "}), {" "})

\* s.replace(c, "")
Remove(s, c) == SelectSeq(s, LAMBDA x : x # c)

\* len(s.split(sep))
SplitLen(s, sep) == 1 + Len(SelectSeq(s, LAMBDA x : x = sep))

\* s.split(sep)[-1]
RECURSIVE SplitLast(_, _)
SplitLast(s, sep) ==
    IF \E i \in 1..Len(s) : s[i] = sep
    THEN SplitLast(Tail(s), sep) ELSE s

DigitVal(c) ==
    CASE c = "0" -> 0 [] c = "1" -> 1 [] c = "2" -> 2 [] c = "3" -> 3
      [] c = "4" -> 4 [] c = "5" -> 5 [] c = "6" -> 6 [] c = "7" -> 7
      [] c = "8" -> 8 [] c = "9" -> 9

DigitChar(d) ==
    CASE d = 0 -> "0" [] d = 1 -> "1" [] d = 2 -> "2" [] d = 3 -> "3"
      [] d = 4 -> "4" [] d = 5 -> "5" [] d = 6 -> "6" [] d = 7 -> "7"
      [] d = 8 -> "8" [] d = 9 -> "9"

\* the value of a non-empty string of digits
RECURSIVE DigitsVal(_)
DigitsVal(s) ==
    IF s = <<>> THEN 0
    ELSE 10 * DigitsVal(SubSeq(s, 1, Len(s) - 1)) + DigitVal(s[Len(s)])

IsDigits(s) == s # <<>> /\ \A i \in 1..Len(s) : s[i] \in Digits

\* the decimal digits of n >= 0
RECURSIVE NatStr(_)
NatStr(n) == IF n < 10 THEN <<DigitChar(n)>> ELSE NatStr(n \div 10) \o <<DigitChar(n % 10)>>

\* str(v) of an int or a str
StrOf(v) ==
    IF IsStr(v) THEN v.str
    ELSE IF v.int < 0 THEN <<"-">> \o NatStr(-v.int) ELSE NatStr(v.int)

\* int(v) of an int, a bool or a str: [ok, val]
IntOf(v) ==
    CASE IsInt(v) -> [ok |-> TRUE, val |-> v.int]
      [] IsBool(v) -> [ok |-> TRUE, val |-> IF v.bool THEN 1 ELSE 0]
      [] IsStr(v) ->
            LET t == Strip(v.str)
                neg == t # <<>> /\ Head(t) = "-"
                body == IF t # <<>> /\ Head(t) \in {"-", "+"} THEN Tail(t) ELSE t
            IN  IF IsDigits(body)
                THEN [ok |-> TRUE, val |-> IF neg THEN -DigitsVal(body) ELSE DigitsVal(body)]
                ELSE [ok |-> FALSE, val |-> 0]
      [] OTHER -> [ok |-> FALSE, val |-> 0]

---------------------------------------------------------------------------
(* Collaborators of BaseEpisode that live outside item.py.                 *)

\* feedgen.util.ensure_format(val, allowed, required): a list of dicts, each
\* with only allowed keys and all required keys
ensure_format(val, allowed, required) ==
    IF ~Truthy(val) THEN [exc |-> NoExc, val |-> <<>>]
    ELSE
      LET l == IF IsList(val) THEN val.list ELSE <<val>>
      IN  IF \E i \in 1..Len(l) : ~IsDict(l[i])
          THEN [exc |-> Raise("ValueError", "Invalid data (value is no dictionary)", None),
                val |-> <<>>]
          ELSE IF \E i \in 1..Len(l) : ~(DOMAIN l[i].dict \subseteq allowed)
          THEN [exc |-> Raise("ValueError", "Data contains invalid keys", None),
                val |-> <<>>]
          ELSE IF \E i \in 1..Len(l) : ~(required \subseteq DOMAIN l[i].dict)
          THEN [exc |-> Raise("ValueError", "Data contains not all required keys", None),
                val |-> <<>>]
          ELSE [exc |-> NoExc, val |-> l]

\* feedgen.util.formatRFC2822(dt): the date and its offset as text
formatRFC2822(dt) == PyStr(<<dt.datetime>> \o dt.tzinfo.str)

\* dateutil.parser.parse(s).  A date string is modelled by its lexical
\* tokens: <<date-time>> or <<date-time, offset>>; anything else does not parse.
DateTokens == {"2020-01-01T00:00:00"}
dateutil_parse(s) ==
    IF s # <<>> /\ s[1] \in DateTokens /\ Len(s) <= 2
    THEN [exc |-> NoExc,
          val |-> PyDatetime(s[1], IF Len(s) = 2 THEN PyStr(<<s[2]>>) ELSE None)]
    ELSE [exc |-> Raise("ValueError", "Unknown string format", PyStr(s)), val |-> None]

\* lxml: element.text accepts None, a str or CDATA; an attribute value a str
Elem(tag, text, attrib) == [tag |-> tag, text |-> text, attrib |-> attrib]
CDATA(s) == [cdata |-> s]
TextOk(v) == IsNone(v) \/ IsStr(v) \/ "cdata" \in DOMAIN v
ElemOk(el) ==
    /\ TextOk(el.text)
    /\ \A i \in 1..Len(el.attrib) : IsStr(el.attrib[i][2])

---------------------------------------------------------------------------
(* BaseEpisode.                                                            *)

\* BaseEpisode.__init__
NewEpisode ==
    [rss_author |-> None, rss_category |-> None, rss_comments |-> None,
     rss_description |-> None, rss_content |-> None, rss_enclosure |-> None,
     rss_guid |-> None, rss_link |-> None, rss_pubDate |-> None,
     rss_source |-> None, rss_title |-> None,
     itunes_author |-> None, itunes_block |-> None, itunes_image |-> None,
     itunes_duration |-> None, itunes_explicit |-> None,
     itunes_is_closed_captioned |-> None, itunes_order |-> None,
     itunes_subtitle |-> None, itunes_summary |-> None]

\* one call on the episode: the object after it, and what the caller sees
Call(op, args, after, ret, exc) ==
    /\ episode' = after
    /\ out' = [op |-> op, args |-> args, ret |-> ret, exc |-> exc]
    /\ calls' = IF IsNone(args[1]) THEN calls ELSE calls + 1
    /\ UNCHANGED mediaVars

\* the plain accessors: "if not x is None: self.__f = x; return self.__f"
GetOrSet(op, field, x) ==
    LET after == IF ~IsNone(x) THEN [episode EXCEPT ![field] = x] ELSE episode
    IN  Call(op, <<x>>, after, after[field], NoExc)

title(x) == GetOrSet("title", "rss_title", x)

guid(x) == GetOrSet("guid", "rss_guid", x)

link(href) == GetOrSet("link", "rss_link", href)

description(x) == GetOrSet("description", "rss_description", x)

comments(x) == GetOrSet("comments", "rss_comments", x)

itunes_author(x) == GetOrSet("itunes_author", "itunes_author", x)

itunes_block(x) == GetOrSet("itunes_block", "itunes_block", x)

itunes_subtitle(x) == GetOrSet("itunes_subtitle", "itunes_subtitle", x)

itunes_summary(x) == GetOrSet("itunes_summary", "itunes_summary", x)

\* '%s (%s)' % (a['email'], a['name'])
AuthorString(a) == PyStr(a.dict["email"].str \o <<" ", "(">> \o a.dict["name"].str \o <<")">>)

author(a, replace, kwargs) ==
    LET arg == IF IsNone(a) /\ Truthy(kwargs) THEN kwargs ELSE a
        base == IF replace \/ IsNone(episode.rss_author)
                THEN PyList(<<>>) ELSE episode.rss_author
        ef == ensure_format(arg, {"name", "email"}, {"email"})
        cleared == [episode EXCEPT !.rss_author = base]
    IN  IF IsNone(arg) THEN Call("author", <<arg, PyBool(replace)>>, episode, episode.rss_author, NoExc)
        ELSE IF ef.exc.raised
        THEN Call("author", <<arg, PyBool(replace)>>, cleared, None, ef.exc)
        ELSE IF \E i \in 1..Len(ef.val) : "name" \notin DOMAIN ef.val[i].dict
        THEN Call("author", <<arg, PyBool(replace)>>, cleared, None,
                  Raise("KeyError", "name", None))
        ELSE LET new == PyList(base.list \o [i \in 1..Len(ef.val) |-> AuthorString(ef.val[i])])
             IN  Call("author", <<arg, PyBool(replace)>>,
                      [episode EXCEPT !.rss_author = new], new, NoExc)

content(c, type) ==
    LET d == IF ~IsNone(type) THEN [content |-> c, type |-> type] ELSE [content |-> c]
        after == IF ~IsNone(c) THEN [episode EXCEPT !.rss_content = PyDict(d)] ELSE episode
    IN  Call("content", <<c, type>>, after, after.rss_content, NoExc)

\* one pass of "for cat in category": the record stored for cat, or a KeyError
RssCat(cat) ==
    LET hasValue == Truthy(DictGet(cat, "label")) \/ "term" \in DOMAIN cat.dict
        value == IF Truthy(DictGet(cat, "label")) THEN cat.dict["label"] ELSE cat.dict["term"]
    IN  IF ~hasValue THEN [ok |-> FALSE, val |-> None]
        ELSE IF Truthy(DictGet(cat, "scheme"))
        THEN [ok |-> TRUE, val |-> PyDict([value |-> value, domain |-> cat.dict["scheme"]])]
        ELSE [ok |-> TRUE, val |-> PyDict([value |-> value])]

\* the records appended before the loop ends or raises
RECURSIVE AppendCats(_, _)
AppendCats(stored, todo) ==
    IF todo = <<>> THEN [ok |-> TRUE, list |-> stored]
    ELSE LET r == RssCat(Head(todo))
         IN  IF r.ok THEN AppendCats(Append(stored, r.val), Tail(todo))
             ELSE [ok |-> FALSE, list |-> stored]

\* a faulty variant: the stored categories are kept even under replace
category_base_kept(replace) ==
    IF IsNone(episode.rss_category) THEN <<>> ELSE episode.rss_category.list

\* "if replace or self.__rss_category is None: self.__rss_category = []"
category_base(replace) ==
    IF replace \/ IsNone(episode.rss_category) THEN <<>> ELSE episode.rss_category.list

category(c, replace, kwargs) ==
    LET arg == IF IsNone(c) /\ Truthy(kwargs) THEN kwargs ELSE c
        l == IF IsDict(arg) THEN <<arg>> ELSE arg.list
        r == AppendCats(category_base(replace), l)
        after == [episode EXCEPT !.rss_category = PyList(r.list)]
    IN  IF IsNone(arg) THEN Call("category", <<arg, PyBool(replace)>>, episode, episode.rss_category, NoExc)
        ELSE IF r.ok THEN Call("category", <<arg, PyBool(replace)>>, after, after.rss_category, NoExc)
        ELSE Call("category", <<arg, PyBool(replace)>>, after, None, Raise("KeyError", "term", None))

published(x) ==
    LET parsed == IF IsStr(x) THEN dateutil_parse(x.str) ELSE [exc |-> NoExc, val |-> x]
        dt == parsed.val
    IN  IF IsNone(x) THEN Call("published", <<x>>, episode, episode.rss_pubDate, NoExc)
        ELSE IF parsed.exc.raised THEN Call("published", <<x>>, episode, None, parsed.exc)
        ELSE IF ~IsDatetime(dt)
        THEN Call("published", <<x>>, episode, None,
                  Raise("ValueError", "Invalid datetime format", None))
        ELSE IF IsNone(dt.tzinfo)
        THEN Call("published", <<x>>, episode, None,
                  Raise("ValueError", "Datetime object has no timezone info", None))
        ELSE Call("published", <<x>>, [episode EXCEPT !.rss_pubDate = dt], dt, NoExc)

enclosure(url, length, type) ==
    LET after == IF ~IsNone(url)
                 THEN [episode EXCEPT !.rss_enclosure =
                           PyDict([url |-> url, length |-> length, type |-> type])]
                 ELSE episode
    IN  Call("enclosure", <<url, length, type>>, after, after.rss_enclosure, NoExc)

ImageSuffixes == {<<".", "j", "p", "g">>, <<".", "j", "p", "e", "g">>, <<".", "p", "n", "g">>}

itunes_image(x) ==
    IF IsNone(x) THEN Call("itunes_image", <<x>>, episode, episode.itunes_image, NoExc)
    ELSE IF ~(\E suf \in ImageSuffixes : EndsWith(Lower(x.str), suf))
    THEN Call("itunes_image", <<x>>, episode, None,
              Raise("ValueError", "Image filename must end with png or jpg, not .%s",
                    PyStr(SplitLast(x.str, "."))))
    ELSE Call("itunes_image", <<x>>, [episode EXCEPT !.itunes_image = x], x, NoExc)

DurationChars == Digits \cup {":"}

\* the ValueError of line 417 is built and dropped, never raised; the value
\* returned is the bound method self.itunes_duration, not the stored string
itunes_duration(x) ==
    LET s == StrOf(x)
        invalid == SplitLen(s, ":") > 3 \/ LStrip(s, DurationChars) # <<>>
        after == IF ~IsNone(x) THEN [episode EXCEPT !.itunes_duration = PyStr(s)] ELSE episode
    IN  Call("itunes_duration", <<x>>, after, [method |-> "itunes_duration"], NoExc)

ExplicitValues == <<PyStr(<<>>), PyStr(<<"y", "e", "s">>), PyStr(<<"n", "o">>),
                    PyStr(<<"c", "l", "e", "a", "n">>)>>

\* a faulty variant: the value is stored without the membership check
itunes_explicit_unchecked(x) == GetOrSet("itunes_explicit", "itunes_explicit", x)

itunes_explicit(x) ==
    IF IsNone(x) THEN Call("itunes_explicit", <<x>>, episode, episode.itunes_explicit, NoExc)
    ELSE IF ~PyIn(x, ExplicitValues)
    THEN Call("itunes_explicit", <<x>>, episode, None,
              Raise("ValueError", "Invalid value \"%s\" for explicit tag", x))
    ELSE Call("itunes_explicit", <<x>>, [episode EXCEPT !.itunes_explicit = x], x, NoExc)

\* a faulty variant: any non-empty value counts as captioned
itunes_is_closed_captioned_truthy(x) ==
    LET after == IF ~IsNone(x)
                 THEN [episode EXCEPT !.itunes_is_closed_captioned = PyBool(Truthy(x))]
                 ELSE episode
    IN  Call("itunes_is_closed_captioned", <<x>>, after, after.itunes_is_closed_captioned, NoExc)

itunes_is_closed_captioned(x) ==
    LET after == IF ~IsNone(x)
                 THEN [episode EXCEPT !.itunes_is_closed_captioned =
                           PyBool(PyIn(x, <<PyStr(<<"y", "e", "s">>), PyBool(TRUE)>>))]
                 ELSE episode
    IN  Call("itunes_is_closed_captioned", <<x>>, after, after.itunes_is_closed_captioned, NoExc)

\* a faulty variant: a negative order is stored as 0
itunes_order_clamped(x) ==
    IF IsNone(x) THEN Call("itunes_order", <<x>>, episode, episode.itunes_order, NoExc)
    ELSE IF ~IntOf(x).ok
    THEN Call("itunes_order", <<x>>, episode, None,
              Raise("ValueError", "invalid literal for int() with base 10: %r", x))
    ELSE LET n == IF IntOf(x).val < 0 THEN 0 ELSE IntOf(x).val
         IN  Call("itunes_order", <<x>>, [episode EXCEPT !.itunes_order = PyInt(n)],
                  PyInt(n), NoExc)

itunes_order(x) ==
    IF IsNone(x) THEN Call("itunes_order", <<x>>, episode, episode.itunes_order, NoExc)
    ELSE IF ~IntOf(x).ok
    THEN Call("itunes_order", <<x>>, episode, None,
              Raise("ValueError", "invalid literal for int() with base 10: %r", x))
    ELSE Call("itunes_order", <<x>>, [episode EXCEPT !.itunes_order = PyInt(IntOf(x).val)],
              PyInt(IntOf(x).val), NoExc)

\* a faulty variant: content alone is not rendered as the description
entry_description_content_dropped(e) ==
    IF Truthy(e.rss_description) /\ Truthy(e.rss_content)
    THEN <<Elem("description", e.rss_description, <<>>),
           Elem("content:encoded", e.rss_content.dict["content"], <<>>)>>
    ELSE IF Truthy(e.rss_description)
    THEN <<Elem("description", e.rss_description, <<>>)>>
    ELSE <<>>

\* the description / content:encoded children (lines 66-78)
entry_description(e) ==
    IF Truthy(e.rss_description) /\ Truthy(e.rss_content)
    THEN <<Elem("description", e.rss_description, <<>>),
           Elem("content:encoded",
                IF DictGet(e.rss_content, "type") = PyStr(<<"C", "D", "A", "T", "A">>)
                THEN CDATA(e.rss_content.dict["content"])
                ELSE e.rss_content.dict["content"],
                <<>>)>>
    ELSE IF Truthy(e.rss_description)
    THEN <<Elem("description", e.rss_description, <<>>)>>
    ELSE IF Truthy(e.rss_content)
    THEN <<Elem("description", e.rss_content.dict["content"], <<>>)>>
    ELSE <<>>

\* the RSS children of the item, in the order rss_entry appends them
entry_rss(e) ==
    (IF Truthy(e.rss_title) THEN <<Elem("title", e.rss_title, <<>>)>> ELSE <<>>)
    \o (IF Truthy(e.rss_link) THEN <<Elem("link", e.rss_link, <<>>)>> ELSE <<>>)
    \o entry_description(e)
    \o (IF Truthy(e.rss_author)
        THEN [i \in 1..Len(e.rss_author.list) |-> Elem("author", e.rss_author.list[i], <<>>)]
        ELSE <<>>)
    \o (IF Truthy(e.rss_guid)
        THEN <<Elem("guid", e.rss_guid, <<<<"isPermaLink", PyStr(<<"f", "a", "l", "s", "e">>)>>>>)>>
        ELSE <<>>)
    \o (IF Truthy(e.rss_category)
        THEN [i \in 1..Len(e.rss_category.list) |->
                 LET cat == e.rss_category.list[i]
                 IN  Elem("category", cat.dict["value"],
                          IF Truthy(DictGet(cat, "domain"))
                          THEN <<<<"domain", cat.dict["domain"]>>>> ELSE <<>>)]
        ELSE <<>>)
    \o (IF Truthy(e.rss_comments) THEN <<Elem("comments", e.rss_comments, <<>>)>> ELSE <<>>)
    \o (IF Truthy(e.rss_enclosure)
        THEN <<Elem("enclosure", None,
                    <<<<"url", e.rss_enclosure.dict["url"]>>,
                      <<"length", e.rss_enclosure.dict["length"]>>,
                      <<"type", e.rss_enclosure.dict["type"]>>>>)>>
        ELSE <<>>)
    \o (IF Truthy(e.rss_pubDate)
        THEN <<Elem("pubDate", formatRFC2822(e.rss_pubDate), <<>>)>> ELSE <<>>)

YesNo(v) == IF Truthy(v) THEN PyStr(<<"y", "e", "s">>) ELSE PyStr(<<"n", "o">>)

\* the iTunes children of the item, in the order rss_entry appends them
entry_itunes(e) ==
    (IF Truthy(e.itunes_author) THEN <<Elem("itunes:author", e.itunes_author, <<>>)>> ELSE <<>>)
    \o (IF ~IsNone(e.itunes_block)
        THEN <<Elem("itunes:block", YesNo(e.itunes_block), <<>>)>> ELSE <<>>)
    \o (IF Truthy(e.itunes_image)
        THEN <<Elem("itunes:image", None, <<<<"href", e.itunes_image>>>>)>> ELSE <<>>)
    \o (IF Truthy(e.itunes_duration)
        THEN <<Elem("itunes:duration", e.itunes_duration, <<>>)>> ELSE <<>>)
    \o (IF PyIn(e.itunes_explicit, Tail(ExplicitValues))
        THEN <<Elem("itunes:explicit", e.itunes_explicit, <<>>)>> ELSE <<>>)
    \o (IF ~IsNone(e.itunes_is_closed_captioned)
        THEN <<Elem("itunes:isClosedCaptioned", YesNo(e.itunes_is_closed_captioned), <<>>)>>
        ELSE <<>>)
    \o (IF ~IsNone(e.itunes_order) /\ e.itunes_order.int >= 0
        THEN <<Elem("itunes:order", PyStr(StrOf(e.itunes_order)), <<>>)>> ELSE <<>>)
    \o (IF Truthy(e.itunes_subtitle)
        THEN <<Elem("itunes:subtitle", e.itunes_subtitle, <<>>)>> ELSE <<>>)
    \o (IF Truthy(e.itunes_summary)
        THEN <<Elem("itunes:summary", e.itunes_summary, <<>>)>> ELSE <<>>)

\* a faulty variant: the iTunes block is appended before the RSS block
entry_children_itunes_first(e) == entry_itunes(e) \o entry_rss(e)

entry_children(e) == entry_rss(e) \o entry_itunes(e)

\* "if not (title or description or content): raise ValueError"
required_missing(e) ==
    ~(Truthy(e.rss_title) \/ Truthy(e.rss_description) \/ Truthy(e.rss_content))

\* rss_entry(): the item element, or the exception that ends the call
rss_entry_result(e) ==
    LET children == entry_children(e)
    IN  IF required_missing(e)
        THEN [ret |-> None, exc |-> Raise("ValueError", "Required fields not set", None)]
        ELSE IF \E i \in 1..Len(children) : ~ElemOk(children[i])
        THEN [ret |-> None,
              exc |-> Raise("TypeError", "Argument must be bytes or unicode", None)]
        ELSE [ret |-> [element |-> "item", children |-> children], exc |-> NoExc]

rss_entry ==
    /\ episode' = episode
    /\ out' = [op |-> "rss_entry", args |-> <<None>>,
               ret |-> rss_entry_result(episode).ret, exc |-> rss_entry_result(episode).exc]
    /\ UNCHANGED <<calls, mediaVars>>

---------------------------------------------------------------------------
(* Arguments the calls are explored with.                                  *)

sT == PyStr(<<"t">>)
sEmpty == PyStr(<<>>)
sYes == PyStr(<<"y", "e", "s">>)
sNo == PyStr(<<"n", "o">>)
sClean == PyStr(<<"c", "l", "e", "a", "n">>)
sCDATA == PyStr(<<"C", "D", "A", "T", "A">>)
sHtml == PyStr(<<"h", "t", "m", "l">>)
sDate == <<"2020-01-01T00:00:00">>
sName == PyStr(<<"n">>)
sMail1 == PyStr(<<"a", "@", "x">>)
sMail2 == PyStr(<<"b", "@", "x">>)
NoKwargs == PyDict(<<>>)

TextArgs == {None, sEmpty, sT}
ContentArgs == {<<None, None>>, <<sT, None>>, <<sT, sCDATA>>, <<sT, sHtml>>, <<sEmpty, None>>}
PublishedArgs ==
    {None, PyStr(sDate \o <<"+00:00">>), PyStr(sDate), PyStr(<<"tomorrow-ish">>),
     PyDatetime("2020-01-01T00:00:00", PyStr(<<"+02:00">>)),
     PyDatetime("2020-01-01T00:00:00", None), PyInt(2020)}
EnclosureArgs ==
    {<<None, None, None>>, <<sT, PyStr(<<"1", "2">>), PyStr(<<"a", "/", "b">>)>>,
     <<sT, None, None>>, <<sT, PyInt(12), PyStr(<<"a", "/", "b">>)>>}
BlockArgs == {None, PyBool(TRUE), PyBool(FALSE)}
ImageArgs ==
    {None, PyStr(<<"c", ".", "p", "n", "g">>), PyStr(<<"c", ".", "J", "P", "G">>),
     PyStr(<<"c", ".", "j", "p", "e", "g">>), PyStr(<<"c", ".", "g", "i", "f">>),
     PyStr(<<"p", "n", "g">>)}
DurationArgs ==
    {None, PyInt(90), PyStr(<<"1", ":", "3", "0">>), PyStr(<<"1", ":", "0", ":", "0">>),
     PyStr(<<"1", ":", "2", ":", "3", ":", "4">>), PyStr(<<"9", "0", "s">>),
     PyStr(<<"a", "b">>), PyInt(-5)}
ExplicitArgs == {None, sEmpty, sYes, sNo, sClean, PyStr(<<"m", "a", "y", "b", "e">>)}
CaptionedArgs == {None, sYes, sNo, PyBool(TRUE), PyBool(FALSE), PyInt(1)}
OrderArgs == {None, PyInt(3), PyInt(0), PyInt(-1), PyStr(<<"1", "2">>), PyStr(<<"x">>)}

AuthorRec(name, email) ==
    PyDict([k \in (IF IsNone(name) THEN {} ELSE {"name"}) \cup
                  (IF IsNone(email) THEN {} ELSE {"email"}) |->
               IF k = "name" THEN name ELSE email])
AuthorRecs ==
    {AuthorRec(sName, sMail1), AuthorRec(sName, sMail2), AuthorRec(None, sMail1),
     AuthorRec(sName, None)}

CatRec(term, label, scheme) ==
    PyDict([k \in (IF IsNone(term) THEN {} ELSE {"term"}) \cup
                  (IF IsNone(label) THEN {} ELSE {"label"}) \cup
                  (IF IsNone(scheme) THEN {} ELSE {"scheme"}) |->
               IF k = "term" THEN term ELSE IF k = "label" THEN label ELSE scheme])
sA == PyStr(<<"a">>)
sB == PyStr(<<"B">>)
sScheme == PyStr(<<"s">>)
CatRecs ==
    {CatRec(sA, None, None), CatRec(sA, None, sScheme), CatRec(None, sB, None),
     CatRec(sA, sB, None), CatRec(sA, sEmpty, None), CatRec(sA, None, sEmpty),
     CatRec(None, sEmpty, None), NoKwargs}

\* a single record, or a list of at most two records
OneOrMany(recs) ==
    recs \cup {PyList(<<>>)} \cup {PyList(<<r>>) : r \in recs}
         \cup {PyList(<<r1, r2>>) : r1 \in recs, r2 \in recs}

---------------------------------------------------------------------------
(* The specification of one Episode: any accessor, any argument, at most   *)
(* MaxCalls calls that carry an argument, and rss_entry at any time.       *)

NewMedia == [constructed |-> FALSE, url |-> None, size |-> None, type |-> None]

Init ==
    /\ episode = NewEpisode
    /\ out = [op |-> "__init__", args |-> <<None>>, ret |-> None, exc |-> NoExc]
    /\ calls = 0
    /\ media = NewMedia
    /\ mout = [op |-> "none", args |-> <<None>>, exc |-> NoExc, warnings |-> {}]
    /\ head_requests = 0

\* the budget of calls that carry an argument
Within(x, bound) == IsNone(x) \/ calls < bound

Next ==
    \/ \E x \in TextArgs : Within(x, MaxCalls) /\ title(x)
    \/ \E x \in TextArgs : Within(x, MaxCalls) /\ guid(x)
    \/ \E x \in TextArgs : Within(x, MaxCalls) /\ link(x)
    \/ \E x \in TextArgs : Within(x, MaxCalls) /\ description(x)
    \/ \E x \in TextArgs : Within(x, MaxCalls) /\ comments(x)
    \/ \E x \in ContentArgs : Within(x[1], MaxCalls) /\ content(x[1], x[2])
    \/ \E a \in {None, AuthorRec(sName, sMail1), AuthorRec(None, sMail1)} :
          Within(a, MaxCalls) /\ author(a, FALSE, NoKwargs)
    \/ \E c \in {None, CatRec(PyStr(<<"a">>), None, None)} :
          Within(c, MaxCalls) /\ category(c, FALSE, NoKwargs)
    \/ \E x \in PublishedArgs : Within(x, MaxCalls) /\ published(x)
    \/ \E x \in EnclosureArgs : Within(x[1], MaxCalls) /\ enclosure(x[1], x[2], x[3])
    \/ \E x \in TextArgs : Within(x, MaxCalls) /\ itunes_author(x)
    \/ \E x \in BlockArgs : Within(x, MaxCalls) /\ itunes_block(x)
    \/ \E x \in ImageArgs : Within(x, MaxCalls) /\ itunes_image(x)
    \/ \E x \in DurationArgs : Within(x, MaxCalls) /\ itunes_duration(x)
    \/ \E x \in ExplicitArgs : Within(x, MaxCalls) /\ itunes_explicit(x)
    \/ \E x \in CaptionedArgs : Within(x, MaxCalls) /\ itunes_is_closed_captioned(x)
    \/ \E x \in OrderArgs : Within(x, MaxCalls) /\ itunes_order(x)
    \/ \E x \in TextArgs : Within(x, MaxCalls) /\ itunes_subtitle(x)
    \/ \E x \in TextArgs : Within(x, MaxCalls) /\ itunes_summary(x)
    \/ rss_entry

Spec == Init /\ [][Next]_vars

---------------------------------------------------------------------------
(* The specification that explores the order of the rendered children:     *)
(* every field can be given a value, at most MaxSets calls, then rss_entry. *)

sLen == PyStr(<<"1", "2">>)
sMime == PyStr(<<"a", "/", "b">>)
AwareDate == PyDatetime("2020-01-01T00:00:00", PyStr(<<"+02:00">>))

NextOrder ==
    \/ Within(sT, MaxSets) /\ title(sT)
    \/ Within(sT, MaxSets) /\ guid(sT)
    \/ Within(sT, MaxSets) /\ link(sT)
    \/ Within(sT, MaxSets) /\ description(sT)
    \/ Within(sT, MaxSets) /\ comments(sT)
    \/ Within(sT, MaxSets) /\ content(sT, None)
    \/ Within(sT, MaxSets) /\ author(AuthorRec(sName, sMail1), FALSE, NoKwargs)
    \/ Within(sT, MaxSets) /\ category(CatRec(PyStr(<<"a">>), None, PyStr(<<"s">>)), FALSE, NoKwargs)
    \/ Within(sT, MaxSets) /\ published(AwareDate)
    \/ Within(sT, MaxSets) /\ enclosure(sT, sLen, sMime)
    \/ Within(sT, MaxSets) /\ itunes_author(sT)
    \/ \E x \in {PyBool(TRUE), PyBool(FALSE)} : Within(x, MaxSets) /\ itunes_block(x)
    \/ Within(sT, MaxSets) /\ itunes_image(PyStr(<<"c", ".", "p", "n", "g">>))
    \/ Within(sT, MaxSets) /\ itunes_duration(PyStr(<<"1", ":", "3", "0">>))
    \/ \E x \in {sYes, sEmpty} : Within(x, MaxSets) /\ itunes_explicit(x)
    \/ \E x \in {sYes, sNo} : Within(x, MaxSets) /\ itunes_is_closed_captioned(x)
    \/ \E x \in {PyInt(3), PyInt(-1)} : Within(x, MaxSets) /\ itunes_order(x)
    \/ Within(sT, MaxSets) /\ itunes_subtitle(sT)
    \/ Within(sT, MaxSets) /\ itunes_summary(sT)
    \/ rss_entry

SpecOrder == Init /\ [][NextOrder]_vars

---------------------------------------------------------------------------
(* Claims about rss_entry and the accessors.                               *)

Rendered == out.op = "rss_entry" /\ ~out.exc.raised
Tags(item) == [i \in 1..Len(item.children) |-> item.children[i].tag]
WithTag(item, tag) == SelectSeq(item.children, LAMBDA el : el.tag = tag)

\* C1 reads "set" as "holds a non-blank value" for the three fields
C1_AnySet ==
    \E f \in {"rss_title", "rss_description", "rss_content"} : Truthy(episode[f])

\* C1: in every reachable state rss_entry raises the validation failure when
\* none of title, description, content is set, and returns the item element
\* whenever at least one of them is set.
C1_RenderIffRequiredSet ==
    out.op = "rss_entry" =>
        IF C1_AnySet
        THEN ~out.exc.raised /\ out.ret.element = "item"
        ELSE out.exc.raised /\ out.exc.type = "ValueError"

CanonicalOrder ==
    <<"title", "link", "description", "content:encoded", "author", "guid", "category",
      "comments", "enclosure", "pubDate", "itunes:author", "itunes:block", "itunes:image",
      "itunes:duration", "itunes:explicit", "itunes:isClosedCaptioned", "itunes:order",
      "itunes:subtitle", "itunes:summary">>
Rank(tag) == CHOOSE i \in 1..Len(CanonicalOrder) : CanonicalOrder[i] = tag

\* the field(s) an element is emitted for
SourceFields(tag) ==
    CASE tag = "title" -> {"rss_title"}
      [] tag = "link" -> {"rss_link"}
      [] tag = "description" -> {"rss_description", "rss_content"}
      [] tag = "content:encoded" -> {"rss_content"}
      [] tag = "author" -> {"rss_author"}
      [] tag = "guid" -> {"rss_guid"}
      [] tag = "category" -> {"rss_category"}
      [] tag = "comments" -> {"rss_comments"}
      [] tag = "enclosure" -> {"rss_enclosure"}
      [] tag = "pubDate" -> {"rss_pubDate"}
      [] tag = "itunes:author" -> {"itunes_author"}
      [] tag = "itunes:block" -> {"itunes_block"}
      [] tag = "itunes:image" -> {"itunes_image"}
      [] tag = "itunes:duration" -> {"itunes_duration"}
      [] tag = "itunes:explicit" -> {"itunes_explicit"}
      [] tag = "itunes:isClosedCaptioned" -> {"itunes_is_closed_captioned"}
      [] tag = "itunes:order" -> {"itunes_order"}
      [] tag = "itunes:subtitle" -> {"itunes_subtitle"}
      [] tag = "itunes:summary" -> {"itunes_summary"}

C3_Combination(isSet(_)) ==
    LET d == episode.rss_description
        c == episode.rss_content
        descs == WithTag(out.ret, "description")
        encs == WithTag(out.ret, "content:encoded")
        text == c.dict["content"]
    IN  /\ (isSet(d) /\ ~IsNone(c)) =>
               /\ descs = <<Elem("description", d, <<>>)>>
               /\ Len(encs) = 1
               /\ encs[1].text = IF DictGet(c, "type") = sCDATA THEN CDATA(text) ELSE text
        /\ (isSet(d) /\ IsNone(c)) =>
               /\ descs = <<Elem("description", d, <<>>)>>
               /\ encs = <<>>
        /\ (~isSet(d) /\ ~IsNone(c)) =>
               /\ descs = <<Elem("description", text, <<>>)>>
               /\ encs = <<>>

C3_NotNone(v) == ~IsNone(v)

\* C3 as stated: with description and content both set the item has the
\* description and a content:encoded element (CDATA iff the stored type is
\* "CDATA"); with one of them set, a single description holding its text.
C3_AsStated == Rendered => C3_Combination(C3_NotNone)

\* C3 as amended: the same, where a description counts as set only when it is
\* a non-empty string; an empty description is rendered as if it were unset.
C3_DescriptionContent == Rendered => C3_Combination(Truthy)

C3_Witness ==
    /\ Rendered
    /\ Truthy(episode.rss_description)
    /\ ~IsNone(episode.rss_content)
    /\ DictGet(episode.rss_content, "type") = sCDATA
    /\ Len(out.ret.children) = 2

AccessorField ==
    [title |-> "rss_title", guid |-> "rss_guid", author |-> "rss_author",
     content |-> "rss_content", link |-> "rss_link", description |-> "rss_description",
     category |-> "rss_category", published |-> "rss_pubDate", comments |-> "rss_comments",
     enclosure |-> "rss_enclosure", itunes_author |-> "itunes_author",
     itunes_block |-> "itunes_block", itunes_image |-> "itunes_image",
     itunes_duration |-> "itunes_duration", itunes_explicit |-> "itunes_explicit",
     itunes_is_closed_captioned |-> "itunes_is_closed_captioned",
     itunes_order |-> "itunes_order", itunes_subtitle |-> "itunes_subtitle",
     itunes_summary |-> "itunes_summary"]

\* C4: every accessor call that returns, with or without an argument, returns
\* the value now stored in its field, itunes_duration included.
C4_UniformGetOrSet ==
    (out.op \in DOMAIN AccessorField /\ ~out.exc.raised) =>
        out.ret = episode[AccessorField[out.op]]

C5_ValidDuration(s) ==
    /\ SplitLen(s, ":") <= 3
    /\ \A i \in 1..Len(s) : s[i] \in Digits \cup {":"}

\* C5: a duration with more than 3 colon-separated components or a character
\* other than digits and colons is rejected and not stored, so the stored
\* duration (and the rendered itunes:duration) is always well formed.
C5_DurationRejected ==
    /\ IsNone(episode.itunes_duration) \/ C5_ValidDuration(episode.itunes_duration.str)
    /\ (out.op = "itunes_duration" /\ ~IsNone(out.args[1])
            /\ ~C5_ValidDuration(StrOf(out.args[1]))) => out.exc.raised
    /\ Rendered => \A i \in 1..Len(out.ret.children) :
                       out.ret.children[i].tag = "itunes:duration"
                           => C5_ValidDuration(out.ret.children[i].text.str)

C10_Stored ==
    /\ IsNone(episode.rss_pubDate) \/ ~IsNone(episode.rss_pubDate.tzinfo)
    /\ \/ IsNone(episode.itunes_image)
       \/ \E suf \in {<<".", "j", "p", "g">>, <<".", "j", "p", "e", "g">>, <<".", "p", "n", "g">>} :
             EndsWith(Lower(episode.itunes_image.str), suf)
    /\ episode.itunes_explicit \in {None, sEmpty, sYes, sNo, sClean}

\* the step is a call of op with a value the claim calls offending
C10_Offending ==
    LET x == out'.args[1]
    IN  \/ /\ out'.op = "published"
           /\ \/ IsDatetime(x) /\ IsNone(x.tzinfo)
              \/ IsStr(x) /\ Len(x.str) # 2
              \/ IsInt(x)
        \/ /\ out'.op = "itunes_image"
           /\ IsStr(x)
           /\ ~(\E suf \in {<<".", "j", "p", "g">>, <<".", "j", "p", "e", "g">>,
                            <<".", "p", "n", "g">>} : EndsWith(Lower(x.str), suf))
        \/ /\ out'.op = "itunes_explicit"
           /\ IsStr(x)
           /\ x \notin {sEmpty, sYes, sNo, sClean}

\* C10: the stored publication date always carries an offset, the stored
\* image always ends in .jpg/.jpeg/.png (any letter case), the stored explicit
\* value is always one of "", yes, no, clean; and a call with an offending
\* value raises ValueError and leaves the episode as it was.
C10_ValidatedAtAssignment ==
    /\ []C10_Stored
    /\ [][C10_Offending =>
            /\ out'.exc.raised /\ out'.exc.type = "ValueError"
            /\ episode' = episode]_vars

\* a rejected explicit value after an accepted one
C10_Witness ==
    /\ out.op = "itunes_explicit"
    /\ out.exc.raised
    /\ episode.itunes_explicit = sYes

---------------------------------------------------------------------------
(* Media.                                                                  *)

\* Python ints are unbounded; a file size is kept as two base-10^6 limbs
\* <<hi, lo>>, standing for hi * 10^6 + lo.
Limb == 1000000
Big(n) == <<n \div Limb, n % Limb>>
BigNorm(hi, lo) == <<hi + lo \div Limb, lo % Limb>>
BigMul(b, k) == BigNorm(b[1] * k, b[2] * k)
RECURSIVE BigPow(_, _)
BigPow(k, n) == IF n = 0 THEN Big(1) ELSE BigMul(BigPow(k, n - 1), k)
PyLong(b) == [long |-> b]
IsLong(v) == "long" \in DOMAIN v

\* Media.file_types
file_types ==
    {<<<<"m", "4", "a">>, <<"a", "u", "d", "i", "o", "/", "x", "-", "m", "4", "a">>>>,
     <<<<"m", "p", "3">>, <<"a", "u", "d", "i", "o", "/", "m", "p", "e", "g">>>>,
     <<<<"m", "o", "v">>, <<"v", "i", "d", "e", "o", "/", "q", "u", "i", "c", "k", "t", "i", "m", "e">>>>,
     <<<<"m", "p", "4">>, <<"v", "i", "d", "e", "o", "/", "m", "p", "4">>>>,
     <<<<"m", "4", "v">>, <<"v", "i", "d", "e", "o", "/", "x", "-", "m", "4", "v">>>>,
     <<<<"p", "d", "f">>, <<"a", "p", "p", "l", "i", "c", "a", "t", "i", "o", "n", "/", "p", "d", "f">>>>,
     <<<<"e", "p", "u", "b">>, <<"d", "o", "c", "u", "m", "e", "n", "t", "/", "x", "-", "e", "p", "u", "b">>>>}
file_types_keys == {ft[1] : ft \in file_types}
file_types_values == {ft[2] : ft \in file_types}

\* the position of the first character of s in chars, or 0
FirstOf(s, chars) ==
    IF \E i \in 1..Len(s) : s[i] \in chars
    THEN CHOOSE i \in 1..Len(s) : s[i] \in chars /\ \A j \in 1..(i - 1) : s[j] \notin chars
    ELSE 0

SchemeChars ==
    {"a", "b", "c", "d", "e", "f", "g", "h", "i", "j", "k", "l", "m", "n", "o", "p", "q",
     "r", "s", "t", "u", "v", "w", "x", "y", "z", "+", "-", "."} \cup Digits

\* urllib's urlparse(url): the scheme and the path of the URL
urlparse(url) ==
    LET colon == FirstOf(url, {":"})
        hasScheme == /\ colon > 1
                     /\ \A i \in 1..(colon - 1) : LowerChar(url[i]) \in SchemeChars
        scheme == IF hasScheme THEN Lower(SubSeq(url, 1, colon - 1)) ELSE <<>>
        rest == IF hasScheme THEN SubSeq(url, colon + 1, Len(url)) ELSE url
        hasNetloc == Len(rest) >= 2 /\ rest[1] = "/" /\ rest[2] = "/"
        afterSlashes == IF hasNetloc THEN SubSeq(rest, 3, Len(rest)) ELSE rest
        netlocEnd == FirstOf(afterSlashes, {"/", "?", "#"})
        afterNetloc == IF ~hasNetloc THEN rest
                       ELSE IF netlocEnd = 0 THEN <<>>
                       ELSE SubSeq(afterSlashes, netlocEnd, Len(afterSlashes))
        pathEnd == FirstOf(afterNetloc, {"?", "#"})
        path == IF pathEnd = 0 THEN afterNetloc ELSE SubSeq(afterNetloc, 1, pathEnd - 1)
    IN  [scheme |-> scheme, path |-> path]

\* the outcome of a setter or of the constructor: the object, the exception
\* that ended it (if any) and the warnings issued on the way
Outcome(m, exc, warnings) == [media |-> m, exc |-> exc, warnings |-> warnings]

\* a faulty variant: an unsupported extension is refused, not warned about
Media_url_strict(m, url) ==
    IF ~Truthy(url) THEN Outcome(m, Raise("ValueError", "url cannot be empty or None", None), {})
    ELSE IF Lower(SplitLast(urlparse(url.str).path, ".")) \notin file_types_keys
    THEN Outcome(m, Raise("ValueError", "File extension %s is not supported by iTunes.", None), {})
    ELSE Outcome([m EXCEPT !.url = url], NoExc, {})

\* the url setter
Media_url(m, url) ==
    IF ~Truthy(url) THEN Outcome(m, Raise("ValueError", "url cannot be empty or None", None), {})
    ELSE
      LET parsed_url == urlparse(url.str)
          file_extension == Lower(SplitLast(parsed_url.path, "."))
      IN  Outcome([m EXCEPT !.url = url], NoExc,
                  (IF file_extension \notin file_types_keys THEN {"extension"} ELSE {})
                  \cup (IF parsed_url.scheme \notin {<<"h", "t", "t", "p">>, <<"h", "t", "t", "p", "s">>}
                        THEN {"scheme"} ELSE {}))

\* the table of _str_to_bytes
units ==
    {<<<<"b">>, Big(1)>>, <<<<"k", "b">>, Big(1000)>>, <<<<"k", "i", "b">>, Big(1024)>>,
     <<<<"m", "b">>, BigPow(1000, 2)>>, <<<<"m", "i", "b">>, BigPow(1024, 2)>>,
     <<<<"g", "b">>, BigPow(1000, 3)>>, <<<<"g", "i", "b">>, BigPow(1024, 3)>>,
     <<<<"t", "b">>, BigPow(1000, 4)>>, <<<<"t", "i", "b">>, BigPow(1024, 4)>>}

\* float(s) of a plain decimal literal, as mantissa / 10^decimals; a sign
\* makes the number negative.  (Exponents, "inf" and "nan" are not explored.)
float(s) ==
    LET signed == s # <<>> /\ Head(s) \in {"-", "+"}
        body == IF signed THEN Tail(s) ELSE s
        dot == FirstOf(body, {"."})
        int_part == IF dot = 0 THEN body ELSE SubSeq(body, 1, dot - 1)
        frac_part == IF dot = 0 THEN <<>> ELSE SubSeq(body, dot + 1, Len(body))
        digits == int_part \o frac_part
    IN  IF IsDigits(digits)
        THEN [ok |-> TRUE, neg |-> signed /\ Head(s) = "-",
              mantissa |-> DigitsVal(digits), decimals |-> Len(frac_part)]
        ELSE [ok |-> FALSE, neg |-> FALSE, mantissa |-> 0, decimals |-> 0]

RECURSIVE Pow10(_)
Pow10(n) == IF n = 0 THEN 1 ELSE 10 * Pow10(n - 1)

\* round(mantissa * mult / 10^decimals): to the nearest integer, a tie to the
\* even one
RoundScaled(mantissa, decimals, mult) ==
    LET d == Pow10(decimals)
        p == BigMul(mult, mantissa)
        qh == p[1] \div d
        low == (p[1] % d) * Limb + p[2]
        q == BigNorm(qh, low \div d)
        r == low % d
        up == 2 * r > d \/ (2 * r = d /\ q[2] % 2 = 1)
    IN  IF up THEN BigNorm(q[1], q[2] + 1) ELSE q

\* Media._str_to_bytes(size)
Media_str_to_bytes(size) ==
    LET s == Remove(Strip(Lower(StrOf(size))), " ")
        number == float(RStrip(s, {"b", "k", "i", "m", "g", "t"}))
        unit == LStrip(s, Digits \cup {"."})
    IN  IF ~number.ok
        THEN [exc |-> Raise("ValueError", "could not convert string to float: %r",
                            PyStr(RStrip(s, {"b", "k", "i", "m", "g", "t"}))),
              val |-> None]
        ELSE IF \E u \in units : u[1] = unit
        THEN [exc |-> NoExc,
              val |-> PyLong(RoundScaled(number.mantissa, number.decimals,
                                         (CHOOSE u \in units : u[1] = unit)[2]))]
        ELSE [exc |-> Raise("ValueError", "The unit %s was not recognized.", PyStr(unit)),
              val |-> None]

\* "self._size = size" and the warning for 0
Media_size_store(m, b) ==
    Outcome([m EXCEPT !.size = PyLong(b)], NoExc, IF b = Big(0) THEN {"size0"} ELSE {})

\* the size setter: int(size), else _str_to_bytes(size), else 0 for None
Media_size(m, size) ==
    IF IsNone(size) THEN Media_size_store(m, Big(0))
    ELSE IF IsLong(size) THEN Media_size_store(m, size.long)
    ELSE IF IntOf(size).ok /\ IntOf(size).val >= 0
    THEN Media_size_store(m, Big(IntOf(size).val))
    ELSE LET parsed == Media_str_to_bytes(size)
         IN  IF parsed.exc.raised THEN Outcome(m, parsed.exc, {})
             ELSE Media_size_store(m, parsed.val.long)

\* the type setter
Media_type(m, type) ==
    IF ~Truthy(type) THEN Outcome(m, Raise("ValueError", "Type cannot be empty or None", None), {})
    ELSE LET t == Lower(Strip(type.str))
         IN  Outcome([m EXCEPT !.type = PyStr(t)], NoExc,
                     IF t \notin file_types_values THEN {"type"} ELSE {})

\* Media.get_type(url)
Media_get_type(url) ==
    LET file_extension == SplitLast(urlparse(url.str).path, ".")
    IN  IF file_extension \in file_types_keys
        THEN [exc |-> NoExc,
              val |-> PyStr((CHOOSE ft \in file_types : ft[1] = file_extension)[2])]
        ELSE [exc |-> Raise("ValueError", "The file extension %s was not recognized", 
                            PyStr(file_extension)),
              val |-> None]

\* Media.__init__, "self.type = type or self.get_type(url)": s is the outcome
\* so far, inferred that of get_type(url), consulted only without a type
Media_init_type(s, inferred, type) ==
    IF ~Truthy(type) /\ inferred.exc.raised THEN Outcome(s.media, inferred.exc, s.warnings)
    ELSE LET t == Media_type(s.media, IF Truthy(type) THEN type ELSE inferred.val)
         IN  Outcome(t.media, t.exc, s.warnings \cup t.warnings)

\* Media.__init__, "self.size = size" and on: u is the outcome of the url step
Media_init_size(u, url, size, type) ==
    IF u.exc.raised THEN u
    ELSE LET s == Media_size(u.media, size)
         IN  IF s.exc.raised THEN Outcome(s.media, s.exc, u.warnings \cup s.warnings)
             ELSE Media_init_type(Outcome(s.media, s.exc, u.warnings \cup s.warnings),
                                  Media_get_type(url), type)

\* Media.__init__(url, size, type): the new object, unless a step raises
Media_init(url, size, type) ==
    Media_init_size(Media_url([constructed |-> TRUE, url |-> None, size |-> None,
                               type |-> None], url),
                    url, size, type)

\* one operation on the caller's Media, which held `before`: a setter that
\* raises leaves the object as it was, a constructor that raises leaves the
\* caller without a new object
MediaCall(op, args, before, result) ==
    /\ media' = IF result.exc.raised THEN before ELSE result.media
    /\ mout' = [op |-> op, args |-> args, exc |-> result.exc, warnings |-> result.warnings]
    /\ calls' = calls + 1
    /\ UNCHANGED <<episode, out, head_requests>>

NewMediaCall(url, size, type) ==
    MediaCall("Media", <<url, size, type>>, media, Media_init(url, size, type))

SetUrl(url) == media.constructed /\ MediaCall("url", <<url>>, media, Media_url(media, url))

SetSize(size) == media.constructed /\ MediaCall("size", <<size>>, media, Media_size(media, size))

SetType(type) == media.constructed /\ MediaCall("type", <<type>>, media, Media_type(media, type))

\* create_from_server_response, "if not size: size = r.headers[...]" and the
\* same for type: the header `name` is needed and the response lacks it
Media_header_missing(given, r, name) == ~Truthy(given) /\ name \notin DOMAIN r.headers.dict

\* a faulty variant: a header of the response replaces the caller's value
Media_header_or_header_first(given, r, name) ==
    IF name \in DOMAIN r.headers.dict THEN r.headers.dict[name] ELSE given

\* the value passed on to Media(url, size, type): the caller's when it is
\* truthy, else the header of the response
Media_header_or(given, r, name) == IF Truthy(given) THEN given ELSE r.headers.dict[name]

\* Media.create_from_server_response(requests, url, size, type), where r is
\* what requests.head(url) does when called: it raises (r.answer = "Timeout"),
\* or returns a response whose raise_for_status() raises ("HTTPError") or
\* passes ("ok") and whose headers are r.headers.  heads counts the calls of
\* requests.head.
Media_create_from_server_response(r, url, size, type) ==
    IF Truthy(size) /\ Truthy(type)
    THEN [heads |-> 0, result |-> Media_init(url, size, type)]
    ELSE IF r.answer # "ok"
    THEN [heads |-> 1, result |-> Outcome(None, Raise(r.answer, "", url), {})]
    ELSE IF Media_header_missing(size, r, "Content-Length")
    THEN [heads |-> 1,
          result |-> Outcome(None, Raise("RuntimeError", "Content-Length not returned by server when sending HEAD request to %s", url), {})]
    ELSE IF Media_header_missing(type, r, "Content-Type")
    THEN [heads |-> 1,
          result |-> Outcome(None, Raise("RuntimeError", "Content-Type header not returned by server when sending HEAD request to %s", url), {})]
    ELSE [heads |-> 1,
          result |-> Media_init(url, Media_header_or(size, r, "Content-Length"),
                                Media_header_or(type, r, "Content-Type"))]

\* one call of the factory by a caller who held `before`, with `sent`
\* requests sent so far: a call that raises gives the caller no new object
FactoryCall(args, before, sent, c) ==
    /\ media' = IF c.result.exc.raised THEN before ELSE c.result.media
    /\ mout' = [op |-> "create_from_server_response", args |-> args,
                exc |-> c.result.exc, warnings |-> c.result.warnings]
    /\ head_requests' = sent + c.heads
    /\ calls' = calls + 1
    /\ UNCHANGED <<episode, out>>

create_from_server_response(r, url, size, type) ==
    FactoryCall(<<r, url, size, type>>, media, head_requests,
                Media_create_from_server_response(r, url, size, type))

---------------------------------------------------------------------------
(* The specification of one Media: constructions and assignments.          *)

uMp3 == PyStr(<<"h", "t", "t", "p", ":", "/", "/", "x", "/", "a", ".", "m", "p", "3">>)
uMP3 == PyStr(<<"h", "t", "t", "p", "s", ":", "/", "/", "x", "/", "a", ".", "M", "P", "3">>)
uOgg == PyStr(<<"h", "t", "t", "p", ":", "/", "/", "x", "/", "a", ".", "o", "g", "g">>)
uFtp == PyStr(<<"f", "t", "p", ":", "/", "/", "x", "/", "a", ".", "m", "p", "3">>)
uFtpOgg == PyStr(<<"f", "t", "p", ":", "/", "/", "x", "/", "a", ".", "o", "g", "g">>)
uRel == PyStr(<<"a", ".", "m", "4", "a">>)
uQuery == PyStr(<<"h", "t", "t", "p", ":", "/", "/", "x", ".", "o", "g", "g", "/", "a", ".", "p", "d", "f", "?", "v", "=", "1", ".", "2">>)
UrlArgs == {None, sEmpty, uMp3, uMP3, uOgg, uFtp, uFtpOgg, uRel, uQuery}

tMpeg == PyStr(<<"a", "u", "d", "i", "o", "/", "m", "p", "e", "g">>)
tUpper == PyStr(<<" ", "A", "u", "d", "i", "o", "/", "M", "P", "E", "G", " ">>)
tOgg == PyStr(<<"a", "u", "d", "i", "o", "/", "o", "g", "g">>)
tBlank == PyStr(<<" ">>)
TypeArgs == {None, sEmpty, tMpeg, tUpper, tOgg, tBlank}

SizeStrings ==
    {<<"2", "M", "B">>, <<"2", "M", "i", "B">>, <<" ", "2", " ", "m", "b", " ">>, <<"1", "b">>,
     <<"3", "k", "b">>, <<"3", "K", "i", "B">>, <<"1", "g", "b">>, <<"1", "G", "i", "B">>,
     <<"2", "T", "B">>, <<"2", "T", "i", "B">>, <<"2", ".", "5", "k", "b">>,
     <<"1", ".", "5", "b">>, <<"2", ".", "5", "b">>, <<"2", "x", "b">>, <<"2", "b", "b">>,
     <<"1", "2">>, <<"m", "b">>}
SizeArgs == {None, PyInt(0), PyInt(5), PyInt(-1)} \cup {PyStr(s) : s \in SizeStrings}

NextMedia ==
    \/ \E url \in UrlArgs \ {sEmpty, uQuery},
          size \in {PyInt(0), PyInt(5), PyStr(<<"2", "M", "B">>)},
          type \in TypeArgs \ {sEmpty} :
          calls < MaxMediaCalls /\ NewMediaCall(url, size, type)
    \/ \E url \in UrlArgs : calls < MaxMediaCalls /\ SetUrl(url)
    \/ \E size \in SizeArgs : calls < MaxMediaCalls /\ SetSize(size)
    \/ \E type \in TypeArgs : calls < MaxMediaCalls /\ SetType(type)

SpecMedia == Init /\ [][NextMedia]_vars

---------------------------------------------------------------------------
(* The specification of the factory: any mix of supplied and missing size  *)
(* and type, against a server that does not answer, answers with an error  *)
(* status, or answers with any subset of the two headers.                  *)

hLength == PyStr(<<"7">>)
hType == PyStr(<<"v", "i", "d", "e", "o", "/", "m", "p", "4">>)
HeadersOf(names) ==
    PyDict([k \in names |-> IF k = "Content-Length" THEN hLength ELSE hType])
Responses ==
    {[answer |-> "Timeout", headers |-> HeadersOf({})],
     [answer |-> "HTTPError", headers |-> HeadersOf({})]}
    \cup {[answer |-> "ok", headers |-> HeadersOf(names)] :
              names \in SUBSET {"Content-Length", "Content-Type"}}

NextServer ==
    \E r \in Responses, url \in {uMp3, uOgg},
       size \in {None, PyInt(0), PyInt(5), PyStr(<<"2", "M", "B">>)},
       type \in {None, sEmpty, tMpeg} :
       calls < MaxMediaCalls /\ create_from_server_response(r, url, size, type)

SpecServer == Init /\ [][NextServer]_vars

---------------------------------------------------------------------------
(* The specification of the two sequence fields: author and category with  *)
(* a record, a list of records or keyword fields, appending or replacing.  *)

NextSeq ==
    \/ \E a \in {None} \cup OneOrMany(AuthorRecs), replace \in BOOLEAN :
          Within(a, MaxCalls) /\ author(a, replace, NoKwargs)
    \/ \E k \in AuthorRecs, replace \in BOOLEAN :
          Within(k, MaxCalls) /\ author(None, replace, k)
    \/ \E c \in {None} \cup OneOrMany(CatRecs), replace \in BOOLEAN :
          Within(c, MaxCalls) /\ category(c, replace, NoKwargs)
    \/ \E k \in CatRecs \ {NoKwargs}, replace \in BOOLEAN :
          Within(k, MaxCalls) /\ category(None, replace, k)

SpecSeq == Init /\ [][NextSeq]_vars

---------------------------------------------------------------------------
(* Claims about Media.                                                     *)

\* the explored URLs whose extension is outside the table or whose scheme is
\* not http / https, and among them those whose extension get_type knows
C6_Unsupported == {uOgg, uFtp, uFtpOgg, uRel}
C6_Inferable == {uFtp, uRel}
C6_Case ==
    /\ mout.op = "Media"
    /\ mout.args[1] \in C6_Unsupported
    /\ mout.args[2] \in {PyInt(0), PyInt(5), PyStr(<<"2", "M", "B">>)}
    /\ mout.args[3] \in {None, tMpeg, tUpper, tOgg}
C6_Warned ==
    /\ "extension" \in mout.warnings <=> mout.args[1] \in {uOgg, uFtpOgg}
    /\ "scheme" \in mout.warnings <=> mout.args[1] \in {uFtp, uFtpOgg, uRel}
C6_Constructed == ~mout.exc.raised /\ media.constructed /\ media.url = mout.args[1]

\* C6 as stated: a Media whose URL has an unsupported extension or a scheme
\* other than http/https is constructed with a warning and the URL as given,
\* whether or not size and type are supplied.
C6_AsStated == C6_Case => (C6_Warned /\ C6_Constructed)

\* C6 as amended: the warning is issued in every such construction; the
\* Media is constructed with the URL as given when a type is supplied or the
\* extension as written is in the table, and otherwise (no type, extension
\* unknown to get_type) the construction raises ValueError.
C6_WarnsAndConstructs ==
    C6_Case =>
        /\ C6_Warned
        /\ IF ~IsNone(mout.args[3]) \/ mout.args[1] \in C6_Inferable
           THEN C6_Constructed
           ELSE mout.exc.raised /\ mout.exc.type = "ValueError"

C6_Witness ==
    /\ mout.op = "Media"
    /\ mout.args = <<uOgg, PyInt(5), tOgg>>
    /\ "extension" \in mout.warnings
    /\ media = [constructed |-> TRUE, url |-> uOgg, size |-> PyLong(<<0, 5>>), type |-> tOgg]

\* strings of the form <number><unit>: the unit, whether the claim's table
\* has it, and the number times the multiplier, rounded (both neighbours of a
\* tie are listed)
C7_Cases ==
    {[text |-> <<"2", "M", "B">>, unit |-> <<"m", "b">>, known |-> TRUE, sizes |-> {<<2, 0>>}],
     [text |-> <<"2", "M", "i", "B">>, unit |-> <<"m", "i", "b">>, known |-> TRUE, sizes |-> {<<2, 97152>>}],
     [text |-> <<" ", "2", " ", "m", "b", " ">>, unit |-> <<"m", "b">>, known |-> TRUE, sizes |-> {<<2, 0>>}],
     [text |-> <<"1", "b">>, unit |-> <<"b">>, known |-> TRUE, sizes |-> {<<0, 1>>}],
     [text |-> <<"3", "k", "b">>, unit |-> <<"k", "b">>, known |-> TRUE, sizes |-> {<<0, 3000>>}],
     [text |-> <<"3", "K", "i", "B">>, unit |-> <<"k", "i", "b">>, known |-> TRUE, sizes |-> {<<0, 3072>>}],
     [text |-> <<"1", "g", "b">>, unit |-> <<"g", "b">>, known |-> TRUE, sizes |-> {<<1000, 0>>}],
     [text |-> <<"1", "G", "i", "B">>, unit |-> <<"g", "i", "b">>, known |-> TRUE, sizes |-> {<<1073, 741824>>}],
     [text |-> <<"2", "T", "B">>, unit |-> <<"t", "b">>, known |-> TRUE, sizes |-> {<<2000000, 0>>}],
     [text |-> <<"2", "T", "i", "B">>, unit |-> <<"t", "i", "b">>, known |-> TRUE, sizes |-> {<<2199023, 255552>>}],
     [text |-> <<"2", ".", "5", "k", "b">>, unit |-> <<"k", "b">>, known |-> TRUE, sizes |-> {<<0, 2500>>}],
     [text |-> <<"1", ".", "5", "b">>, unit |-> <<"b">>, known |-> TRUE, sizes |-> {<<0, 1>>, <<0, 2>>}],
     [text |-> <<"2", ".", "5", "b">>, unit |-> <<"b">>, known |-> TRUE, sizes |-> {<<0, 2>>, <<0, 3>>}],
     [text |-> <<"2", "x", "b">>, unit |-> <<"x", "b">>, known |-> FALSE, sizes |-> {}],
     [text |-> <<"2", "b", "b">>, unit |-> <<"b", "b">>, known |-> FALSE, sizes |-> {}]}

C7_Parsed ==
    \A c \in C7_Cases :
        (mout.op = "size" /\ mout.args[1] = PyStr(c.text)) =>
            IF c.known
            THEN ~mout.exc.raised /\ media.size.long \in c.sizes
            ELSE /\ mout.exc.raised
                 /\ mout.exc.type = "ValueError"
                 /\ mout.exc.arg = PyStr(c.unit)

\* C7: assigning size a string <number><unit> stores the number times the
\* unit's multiplier, rounded to the nearest integer; a unit outside the
\* table raises a validation failure that names the unit, and the size stays
\* as it was.
C7_SizeStrings ==
    /\ []C7_Parsed
    /\ [][(mout'.op = "size" /\ mout'.exc.raised) => media'.size = media.size]_vars

---------------------------------------------------------------------------
(* Claims about the sequence fields.                                       *)

\* the records of an author / category argument
RecordsOf(arg) == IF IsList(arg) THEN arg.list ELSE IF Truthy(arg) THEN <<arg>> ELSE <<>>
StoredList(v) == IF IsNone(v) THEN <<>> ELSE v.list

\* C8: an author call whose records all carry an email returns, and the
\* authors then hold, after the entries kept (none under replace), one string
\* per record in the order supplied, "email (name)" where the record has a name.
C8_AuthorsRoundTrip ==
    [][LET recs == RecordsOf(out'.args[1])
           kept == IF out'.args[2].bool THEN <<>> ELSE StoredList(episode.rss_author)
           now == StoredList(episode'.rss_author)
       IN  (/\ out'.op = "author"
            /\ ~IsNone(out'.args[1])
            /\ \A i \in 1..Len(recs) : "email" \in DOMAIN recs[i].dict)
           => /\ ~out'.exc.raised
              /\ Len(now) = Len(kept) + Len(recs)
              /\ SubSeq(now, 1, Len(kept)) = kept
              /\ \A i \in 1..Len(recs) :
                    "name" \in DOMAIN recs[i].dict =>
                        now[Len(kept) + i] =
                            PyStr(recs[i].dict["email"].str \o <<" ", "(">>
                                  \o recs[i].dict["name"].str \o <<")">>)]_vars

\* the record C9 expects for one input record, with "present" decided by has
C9_Record(rec, has(_, _)) ==
    LET value == IF has(rec, "label") THEN rec.dict["label"] ELSE rec.dict["term"]
    IN  IF has(rec, "scheme")
        THEN PyDict([value |-> value, domain |-> rec.dict["scheme"]])
        ELSE PyDict([value |-> value])

C9_Step(has(_, _)) ==
    LET recs == RecordsOf(out'.args[1])
        kept == IF out'.args[2].bool THEN <<>> ELSE StoredList(episode.rss_category)
    IN  (out'.op = "category" /\ ~IsNone(out'.args[1]) /\ ~out'.exc.raised)
        => StoredList(episode'.rss_category) =
               kept \o [i \in 1..Len(recs) |-> C9_Record(recs[i], has)]

C9_HasKey(rec, key) == key \in DOMAIN rec.dict
C9_HasValue(rec, key) == Truthy(DictGet(rec, key))

---------------------------------------------------------------------------
(* Claims about the enclosure, the caption flag and the order.             *)

\* C11: the stored enclosure is unset or holds url, length and type together,
\* so a rendering of an Episode with an enclosure and a required field
\* succeeds and its enclosure element carries the three attributes.
C11_EnclosureComplete ==
    /\ \/ IsNone(episode.rss_enclosure)
       \/ \A k \in {"url", "length", "type"} :
             k \in DOMAIN episode.rss_enclosure.dict /\ ~IsNone(episode.rss_enclosure.dict[k])
    /\ (out.op = "rss_entry" /\ Truthy(episode.rss_enclosure) /\ ~required_missing(episode))
           => /\ ~out.exc.raised
              /\ LET encs == WithTag(out.ret, "enclosure")
                 IN  /\ Len(encs) = 1
                     /\ [i \in 1..Len(encs[1].attrib) |-> encs[1].attrib[i][1]]
                            = <<"url", "length", "type">>

\* the values that equal "yes" or True
C12_Affirmative == {sYes, PyBool(TRUE), PyInt(1)}

\* the rendering follows the stored flag: no element while it is unset, else
\* one isClosedCaptioned element reading "yes" or "no"
C12_Rendered ==
    Rendered =>
        LET els == WithTag(out.ret, "itunes:isClosedCaptioned")
            stored == episode.itunes_is_closed_captioned
        IN  IF IsNone(stored) THEN els = <<>>
            ELSE /\ Len(els) = 1
                 /\ els[1].text = IF stored.bool THEN sYes ELSE sNo

\* C12 as stated: every call that supplies a value, an explicit None
\* included, stores true for "yes" or True and false for anything else, and
\* the rendering reads "yes" or "no" accordingly.
C12_AsStated ==
    /\ []C12_Rendered
    /\ [][out'.op = "itunes_is_closed_captioned" =>
            episode'.itunes_is_closed_captioned = PyBool(out'.args[1] \in C12_Affirmative)]_vars

\* C12 as amended: a call with a value other than None stores true for "yes"
\* or True and false for anything else; a call with None is a read and
\* leaves the stored flag as it was; the rendering reads "yes" or "no"
\* accordingly and has no element while the flag is unset.
C12_CaptionedNormalized ==
    /\ []C12_Rendered
    /\ [][out'.op = "itunes_is_closed_captioned" =>
            episode'.itunes_is_closed_captioned =
                IF IsNone(out'.args[1]) THEN episode.itunes_is_closed_captioned
                ELSE PyBool(out'.args[1] \in C12_Affirmative)]_vars

\* a rendering after "no" was supplied
C12_Witness ==
    /\ Rendered
    /\ episode.itunes_is_closed_captioned = PyBool(FALSE)
    /\ Len(WithTag(out.ret, "itunes:isClosedCaptioned")) = 1

\* the decimal strings of the orders explored
C13_Text == [n \in {0, 3, 12} |-> IF n = 0 THEN <<"0">> ELSE IF n = 3 THEN <<"3">> ELSE <<"1", "2">>]

\* the rendering has one itunes:order element, reading the stored order in
\* decimal, when that order is 0 or more, and none when it is negative or unset
C13_Rendered ==
    Rendered =>
        LET els == WithTag(out.ret, "itunes:order")
            stored == episode.itunes_order
        IN  IF ~IsNone(stored) /\ stored.int >= 0
            THEN els = <<Elem("itunes:order", PyStr(C13_Text[stored.int]), <<>>)>>
            ELSE els = <<>>

\* C13: itunes_order with an integer, negative or not, stores and returns
\* it, also over an order stored before; a rendering has exactly one
\* itunes:order element with the decimal text of a stored order >= 0 and none
\* for a negative one.
C13_NegativeOrderHidden ==
    /\ []C13_Rendered
    /\ [][(out'.op = "itunes_order" /\ IsInt(out'.args[1])) =>
            /\ ~out'.exc.raised
            /\ episode'.itunes_order = out'.args[1]
            /\ out'.ret = out'.args[1]]_vars

\* a rendering of an Episode whose stored order is negative
C13_Witness ==
    /\ Rendered
    /\ episode.itunes_order = PyInt(-1)
    /\ WithTag(out.ret, "itunes:order") = <<>>

---------------------------------------------------------------------------
(* Claims about the state of a Media.                                      *)

C14_State ==
    media.constructed =>
        /\ IsStr(media.url) /\ media.url.str # <<>>
        /\ IsStr(media.type) /\ media.type.str # <<>>
        /\ IsLong(media.size) /\ media.size.long[1] >= 0 /\ media.size.long[2] >= 0

C14_Refused ==
    \/ mout.op = "size" /\ mout.args[1] = PyInt(-1)
    \/ mout.op = "url" /\ mout.args[1] = sEmpty
    \/ mout.op = "type" /\ mout.args[1] = sEmpty

\* C14: a constructed Media always has a non-empty url, a non-empty string
\* as type and a non-negative integer as size, whatever was assigned since;
\* assigning a negative size, an empty url or an empty type raises ValueError
\* and leaves the Media as it was.
C14_MediaValid ==
    /\ []C14_State
    /\ [][C14_Refused' => (mout'.exc.raised /\ mout'.exc.type = "ValueError" /\ media' = media)]_vars

\* the last call of the factory: its arguments, and what counts as supplied
C15_Call == mout.op = "create_from_server_response"
C15_Size == mout.args[3]
C15_Type == mout.args[4]
C15_Answered == mout.args[1].answer = "ok"
C15_Has(name) == name \in DOMAIN mout.args[1].headers.dict
C15_Names(name) ==
    /\ mout.exc.raised
    /\ mout.exc.type = "RuntimeError"
    /\ mout.exc.msg = IF name = "Content-Length"
                      THEN "Content-Length not returned by server when sending HEAD request to %s"
                      ELSE "Content-Type header not returned by server when sending HEAD request to %s"
\* the size stored for a supplied size
C15_SizeOf(size) == IF size = PyInt(5) THEN PyLong(<<0, 5>>) ELSE PyLong(<<2, 0>>)

\* the factory's outcome, with suppliedSize and suppliedType telling whether
\* the caller's size and type count as supplied
C15_Outcome(suppliedSize, suppliedType) ==
    C15_Call =>
        /\ (mout.exc.raised /\ mout.exc.type = "RuntimeError") => C15_Answered
        /\ C15_Names("Content-Length") <=>
               (C15_Answered /\ ~suppliedSize /\ ~C15_Has("Content-Length"))
        /\ C15_Names("Content-Type") <=>
               (C15_Answered /\ ~suppliedType /\ ~C15_Has("Content-Type")
                /\ ~C15_Names("Content-Length"))
        /\ ~mout.exc.raised =>
               /\ media.url = mout.args[2]
               /\ media.size = IF suppliedSize THEN C15_SizeOf(C15_Size) ELSE PyLong(<<0, 7>>)
               /\ media.type = IF suppliedType THEN C15_Type ELSE hType

\* the requests of one call, and no new Media from a call that raises
C15_Step(suppliedSize, suppliedType) ==
    C15_Call' =>
        /\ head_requests' = head_requests + (IF suppliedSize' /\ suppliedType' THEN 0 ELSE 1)
        /\ mout'.exc.raised => media' = media

\* C15 as stated, a size or type counting as supplied when it is not None
C15_AsStated ==
    /\ [](C15_Outcome(~IsNone(C15_Size), ~IsNone(C15_Type)))
    /\ [][C15_Step(~IsNone(C15_Size), ~IsNone(C15_Type))]_vars

\* C15: create_from_server_response sends no HEAD request when size and
\* type are both supplied (non-zero, non-empty) and exactly one otherwise; a
\* supplied value is stored as given, a value not supplied comes from the
\* header; RuntimeError names Content-Length exactly when the server answered
\* without it and size was not supplied, and Content-Type likewise (after
\* Content-Length); a call that raises gives no Media.
C15_OneHeadWhenMissing ==
    /\ [](C15_Outcome(Truthy(C15_Size), Truthy(C15_Type)))
    /\ [][C15_Step(Truthy(C15_Size), Truthy(C15_Type))]_vars

\* a call with a size and no type, answered with both headers: one request,
\* the caller's size and the server's type
C15_Witness ==
    /\ C15_Call
    /\ mout.args = <<[answer |-> "ok", headers |-> HeadersOf({"Content-Length", "Content-Type"})],
                     uMp3, PyInt(5), None>>
    /\ head_requests = 1
    /\ media = [constructed |-> TRUE, url |-> uMp3, size |-> PyLong(<<0, 5>>), type |-> hType]

\* the table's MIME type for the extension of an explored URL, whatever the
\* letter case of the extension
C16_Mime(url) ==
    IF url = uRel THEN PyStr(<<"a", "u", "d", "i", "o", "/", "x", "-", "m", "4", "a">>) ELSE tMpeg

\* C16: in a construction Media(url, size) without a type, the url setter
\* issues no unsupported-extension warning exactly when get_type succeeds,
\* that is when the construction returns; the Media then has the table's MIME
\* type for the extension, and size 0 when 0 was passed.
C16_InferenceAgrees ==
    (mout.op = "Media" /\ Truthy(mout.args[1]) /\ IsNone(mout.args[3])) =>
        /\ "extension" \notin mout.warnings <=> ~mout.exc.raised
        /\ ~mout.exc.raised =>
               /\ media.url = mout.args[1]
               /\ media.type = C16_Mime(mout.args[1])
               /\ mout.args[2] = PyInt(0) => media.size = PyLong(<<0, 0>>)

---------------------------------------------------------------------------
(* Claims about failures of the sequence fields.                           *)

\* C17: an author or category call that raises leaves the stored authors
\* and categories exactly as they were before the call, with or without
\* replace and wherever the invalid record stands in the list.
C17_FailureAtomic ==
    [][(out'.op \in {"author", "category"} /\ out'.exc.raised) =>
           /\ episode'.rss_author = episode.rss_author
           /\ episode'.rss_category = episode.rss_category]_vars

===========================================================================
